---- MODULE Spec2Model ----
(***************************************************************************)
(* Model of the ping manager of the peer-to-peer state machine             *)
(* (p2p/src/fsm/pingmgr.rs) together with the output queue it writes to    *)
(* and the clock it reads; of the test peer (p2p/src/fsm/tests/peer.rs)    *)
(* driving the handshake of the peer manager; and of the events of the     *)
(* header chain and of the filter sync (client/src/event.rs); and of the   *)
(* wallet's main (wallet/src/main.rs).                                     *)
(*                                                                         *)
(* Instants and durations are counted in ticks of 30 seconds.              *)
(***************************************************************************)
EXTENDS Integers, Sequences, FiniteSets, TLC

\* ------------------------------------------------------------------ bounds
\* Number of distinct peer addresses.
NumPeers == 2
\* The clock is followed for this many ticks.
MaxTime == 6
\* Number of distinct values of the random number generator.
RngMod == 2
\* Outputs the reactor may leave undrained when it makes the next call.
MaxPending == 0
\* Height of the longest header chain followed.
MaxHeight == 3

PeerIds == 1..NumPeers
Nonces == 0..(RngMod - 1)

\* ------------------------------------------- constants, in ticks of 30 seconds
\* pub const PING_INTERVAL: Duration = Duration::from_mins(2);
PING_INTERVAL == 4
\* pub const PING_TIMEOUT: Duration = Duration::from_secs(30);
PING_TIMEOUT == 1
\* const MAX_RECORDED_LATENCIES: usize = 64;
MAX_RECORDED_LATENCIES == 64

VARIABLES
    peers,         \* PingManager::peers: address -> Peer, for the registered addresses
    ping_timeout,  \* PingManager::ping_timeout
    rng,           \* PingManager::rng: the generator's state
    hasher,        \* the peers map's hasher, as the order in which it iterates
    clock,         \* PingManager::clock: the local time
    outbox,        \* PingManager::upstream: the queue of pending outputs
    horizon,       \* the instant up to which the clock is followed
    call,          \* the last call made: operation, arguments, return value, outputs
    accepted,      \* per registered address, the round trips of all pongs accepted
                   \* since its registration, newest first
    generated,     \* the output queue as the last call left it
    drained,       \* the outputs Protocol::drain has yielded since that call
    initialized,   \* the test peer's flag: init has run
    script,        \* where the test peer's connect is, and with which remote
    conns,         \* the peer manager's record of each remote address
    emitted,       \* per remote address, the outputs the peer manager has
                   \* produced for it since its connection began, in order
    inits,         \* how often Protocol::initialize has been called
    early,         \* whether an event reached the protocol before initialize
    active,        \* the active header chain above genesis, by height
    blockevents,   \* the events of the last import of headers, in order
    reorged,       \* the chain before that import, and the height of the fork
    filters,       \* per height, how the block's filter was processed
    requested,     \* the heights of the blocks scheduled for download
    clientlog,     \* the events of the filter sync, in order
    proc,          \* the wallet process: where main is
    opts,          \* main's Options, once parsed
    level,         \* the level the logger was initialized with
    result,        \* what nakamoto_wallet::run returned
    logged,        \* the lines main has logged
    status,        \* the exit status of the process, once it has ended
    sent,          \* per registered address, the last ping sent to it: when,
                   \* by which call, and what became of it
    replaced       \* what the last peer_negotiated found under its address,
                   \* until the next call of a handler

pingvars == <<peers, ping_timeout, rng, hasher, clock, horizon, outbox, call, accepted>>
drainvars == <<generated, drained>>
hsvars == <<initialized, script, conns, emitted, inits, early>>
chainvars == <<active, blockevents, reorged, filters, requested, clientlog>>
mainvars == <<proc, opts, level, result, logged, status>>
sentvars == <<sent, replaced>>
vars == <<pingvars, drainvars, hsvars, chainvars, mainvars, sentvars>>

\* ------------------------------------------------------------------ helpers
\* All orderings of a finite set, as sequences without repetition.
Perms(S) == {s \in [1..Cardinality(S) -> S] : \A i, j \in 1..Cardinality(S) : s[i] = s[j] => i = j}

\* fastrand::Rng::u64: the generator steps, then yields a value of its new state.
RngStep(s) == (s + 1) % RngMod
RngOut(s) == s

\* VecDeque::truncate(n): keeps the first n elements.
Truncate(q, n) == IF Len(q) <= n THEN q ELSE SubSeq(q, 1, n)

\* HashMap::insert / HashMap::remove.
Insert(m, k, v) == [x \in (DOMAIN m) \cup {k} |-> IF x = k THEN v ELSE m[x]]
Remove(m, k) == [x \in (DOMAIN m) \ {k} |-> m[x]]

\* HashMap::values_mut: the registered addresses in the hasher's order.
Values(m) == SelectSeq(hasher, LAMBDA a : a \in DOMAIN m)

\* ------------------------------------------------------------------- state
AwaitingPong(nonce, since) == [tag |-> "AwaitingPong", nonce |-> nonce, since |-> since]
Idle(since) == [tag |-> "Idle", since |-> since]

\* ----------------------------------------------------------------- outputs
Ping(addr, nonce) == [kind |-> "ping", addr |-> addr, nonce |-> nonce]
Pong(addr, nonce) == [kind |-> "pong", addr |-> addr, nonce |-> nonce]
Wakeup(d) == [kind |-> "wakeup", duration |-> d]
Disconnect(addr, reason) == [kind |-> "disconnect", addr |-> addr, reason |-> reason]
PeerTimeout(what) == <<"PeerTimeout", what>>

\* The record of a call: what was called, with what, what it returned and what
\* it wrote to the output queue, in order.
Call(op, addr, nonce, ret, out) ==
    [op |-> op, addr |-> addr, nonce |-> nonce, ret |-> ret, out |-> out]

\* Placeholders of calls that take no address or no nonce.
NoAddr == NumPeers + 1
NoNonce == RngMod

\* The reactor drains the queue after each call: it makes the next call with
\* at most MaxPending outputs left in it.
CanCall == Len(outbox) <= MaxPending

\* ---------------------------------------------------------- Peer::record_latency
\* record_latency truncating before it pushes: one sample too many is kept.
record_latency_truncate_first(latencies, sample) ==
    <<sample>> \o Truncate(latencies, MAX_RECORDED_LATENCIES)

record_latency(latencies, sample) ==
    Truncate(<<sample>> \o latencies, MAX_RECORDED_LATENCIES)

\* ------------------------------------------------------ Peer::config, l.177-184
\* The test peer after construction: not initialized, no connect under way,
\* and a protocol that knows no remote and has produced nothing.
Idling == [pc |-> "idle"]

HsInit ==
    /\ initialized = FALSE
    /\ script = Idling
    /\ conns = <<>>
    /\ emitted = [a \in PeerIds |-> <<>>]
    /\ inits = 0
    /\ early = FALSE

\* ------------------------------------------- the chain view after construction
\* Only genesis is known: no header above it, no filter processed, no block
\* asked for, no event emitted.
Heights == 1..MaxHeight

ChainInit ==
    /\ active = <<>>
    /\ blockevents = <<>>
    /\ reorged = [from |-> <<>>, fork |-> 0]
    /\ filters = [h \in Heights |-> "none"]
    /\ requested = {}
    /\ clientlog = <<>>

\* ------------------------------------------------ the wallet process at its start
NotYet == "none"

MainInit ==
    /\ proc = "start"
    /\ opts = NotYet
    /\ level = NotYet
    /\ result = NotYet
    /\ logged = <<>>
    /\ status = NotYet

\* What is kept of the last ping sent to a peer: the instant it was sent at,
\* the call that sent it, the pongs accepted for it and the Disconnects
\* issued for it.
LastPing(at, by, pongs, timeouts) ==
    [at |-> at, by |-> by, pongs |-> pongs, timeouts |-> timeouts]

\* What HashMap::insert finds under the address and replaces: whether there
\* was a record, and its state, outstanding nonce and number of samples.
NothingReplaced ==
    [addr |-> NoAddr, had |-> FALSE, tag |-> "none", nonce |-> NoNonce, samples |-> 0]

Replaced(m, addr) ==
    IF addr \in DOMAIN m
    THEN [addr |-> addr, had |-> TRUE, tag |-> m[addr].state.tag,
          nonce |-> IF m[addr].state.tag = "AwaitingPong"
                    THEN m[addr].state.nonce ELSE NoNonce,
          samples |-> Len(m[addr].latencies)]
    ELSE [NothingReplaced EXCEPT !.addr = addr]

\* No peer is registered, so no ping has been sent.
SentInit == sent = <<>> /\ replaced = NothingReplaced

\* ------------------------------------------------------------ PingManager::new
Init ==
    /\ peers = <<>>
    /\ ping_timeout \in {PING_TIMEOUT}
    /\ rng \in Nonces
    /\ hasher \in Perms(PeerIds)
    /\ clock = 0
    /\ horizon = MaxTime
    /\ outbox = <<>>
    /\ call = Call("new", NoAddr, NoNonce, TRUE, <<>>)
    /\ accepted = <<>>
    /\ generated = <<>>
    /\ drained = <<>>
    /\ HsInit
    /\ ChainInit
    /\ MainInit
    /\ SentInit

\* ------------------------------------------------- PingManager::peer_negotiated
\* peer_negotiated drawing a second nonce for the record it inserts.
peer_negotiated_two_nonces(address) ==
    /\ CanCall
    /\ LET nonce == RngOut(RngStep(rng))
           now == clock
           out == <<Ping(address, nonce)>>
       IN /\ rng' = RngStep(RngStep(rng))
          /\ outbox' = outbox \o out
          /\ peers' = Insert(peers, address,
                             [address |-> address,
                              state |-> AwaitingPong(RngOut(RngStep(RngStep(rng))), now),
                              latencies |-> <<>>])
          /\ accepted' = Insert(accepted, address, <<>>)
          /\ call' = Call("peer_negotiated", address, NoNonce, TRUE, out)
    /\ UNCHANGED <<ping_timeout, hasher, clock, horizon>>

\* peer_negotiated keeping the record of an address that already has one.
peer_negotiated_or_insert(address) ==
    /\ CanCall
    /\ LET nonce == RngOut(RngStep(rng))
           now == clock
           out == <<Ping(address, nonce)>>
       IN /\ rng' = RngStep(rng)
          /\ outbox' = outbox \o out
          /\ peers' = IF address \in DOMAIN peers THEN peers
                      ELSE Insert(peers, address,
                                  [address |-> address,
                                   state |-> AwaitingPong(nonce, now),
                                   latencies |-> <<>>])
          /\ accepted' = Insert(accepted, address, <<>>)
          /\ call' = Call("peer_negotiated", address, NoNonce, TRUE, out)
    /\ UNCHANGED <<ping_timeout, hasher, clock, horizon>>

peer_negotiated(address) ==
    /\ CanCall
    /\ LET nonce == RngOut(RngStep(rng))
           now == clock
           out == <<Ping(address, nonce)>>
       IN /\ rng' = RngStep(rng)
          /\ outbox' = outbox \o out
          /\ peers' = Insert(peers, address,
                             [address |-> address,
                              state |-> AwaitingPong(nonce, now),
                              latencies |-> <<>>])
          /\ accepted' = Insert(accepted, address, <<>>)
          /\ call' = Call("peer_negotiated", address, NoNonce, TRUE, out)
    /\ UNCHANGED <<ping_timeout, hasher, clock, horizon>>

\* ----------------------------------------------- PingManager::peer_disconnected
\* peer_disconnected removing the record only of a peer whose ping is answered.
peer_disconnected_idle_only(addr) ==
    /\ CanCall
    /\ peers' = IF addr \in DOMAIN peers /\ peers[addr].state.tag = "Idle"
                THEN Remove(peers, addr) ELSE peers
    /\ accepted' = Remove(accepted, addr)
    /\ call' = Call("peer_disconnected", addr, NoNonce, TRUE, <<>>)
    /\ UNCHANGED <<ping_timeout, rng, hasher, clock, horizon, outbox>>

\* peer_disconnected clearing the map instead of removing the one record.
peer_disconnected_all(addr) ==
    /\ CanCall
    /\ peers' = <<>>
    /\ accepted' = <<>>
    /\ call' = Call("peer_disconnected", addr, NoNonce, TRUE, <<>>)
    /\ UNCHANGED <<ping_timeout, rng, hasher, clock, horizon, outbox>>

peer_disconnected(addr) ==
    /\ CanCall
    /\ peers' = Remove(peers, addr)
    /\ accepted' = Remove(accepted, addr)
    /\ call' = Call("peer_disconnected", addr, NoNonce, TRUE, <<>>)
    /\ UNCHANGED <<ping_timeout, rng, hasher, clock, horizon, outbox>>

\* ---------------------------------------------------- the clock's set_local_time
elapse ==
    /\ clock < horizon
    /\ clock' = clock + 1
    /\ call' = Call("elapse", NoAddr, NoNonce, TRUE, <<>>)
    /\ UNCHANGED <<peers, ping_timeout, rng, hasher, horizon, outbox, accepted>>

\* --------------------------------------------------- PingManager::received_wake
\* One iteration of the loop over the peers: st holds the peers map, the
\* generator and the outputs written so far.
wake_ping(addr, nonce, now, st) ==
    [peers |-> [st.peers EXCEPT ![addr].state = AwaitingPong(nonce, now)],
     rng |-> RngStep(st.rng),
     out |-> st.out \o <<Ping(addr, nonce), Wakeup(ping_timeout), Wakeup(PING_INTERVAL)>>]

\* wake_disconnect dropping the record of the peer it disconnects.
wake_disconnect_latched(addr, st) ==
    [st EXCEPT !.out = @ \o <<Disconnect(addr, PeerTimeout("ping"))>>,
               !.peers = Remove(@, addr)]

wake_disconnect(addr, st) ==
    [st EXCEPT !.out = @ \o <<Disconnect(addr, PeerTimeout("ping"))>>]

\* wake_peer with the timeout compared strictly: the deadline itself is missed.
wake_peer_late(addr, now, st) ==
    LET peer == st.peers[addr] IN
    CASE peer.state.tag = "AwaitingPong" ->
           IF now - peer.state.since > ping_timeout
           THEN wake_disconnect(peer.address, st)
           ELSE st
      [] peer.state.tag = "Idle" ->
           IF now - peer.state.since >= PING_INTERVAL
           THEN wake_ping(peer.address, RngOut(RngStep(st.rng)), now, st)
           ELSE st

\* wake_peer sending the next ping only once more than PING_INTERVAL has passed.
wake_peer_late_ping(addr, now, st) ==
    LET peer == st.peers[addr] IN
    CASE peer.state.tag = "AwaitingPong" ->
           IF now - peer.state.since >= ping_timeout
           THEN wake_disconnect(peer.address, st)
           ELSE st
      [] peer.state.tag = "Idle" ->
           IF now - peer.state.since > PING_INTERVAL
           THEN wake_ping(peer.address, RngOut(RngStep(st.rng)), now, st)
           ELSE st

\* wake_peer measuring the timeout of an idle peer too, from its last pong.
wake_peer_idle_timeout(addr, now, st) ==
    LET peer == st.peers[addr] IN
    IF now - peer.state.since >= PING_INTERVAL /\ peer.state.tag = "Idle"
    THEN wake_ping(peer.address, RngOut(RngStep(st.rng)), now, st)
    ELSE IF now - peer.state.since >= ping_timeout
         THEN wake_disconnect(peer.address, st)
         ELSE st

\* wake_peer answering an overdue ping with another ping.
wake_peer_reping(addr, now, st) ==
    LET peer == st.peers[addr] IN
    CASE peer.state.tag = "AwaitingPong" ->
           IF now - peer.state.since >= ping_timeout
           THEN wake_ping(peer.address, RngOut(RngStep(st.rng)), now, st)
           ELSE st
      [] peer.state.tag = "Idle" ->
           IF now - peer.state.since >= PING_INTERVAL
           THEN wake_ping(peer.address, RngOut(RngStep(st.rng)), now, st)
           ELSE st

wake_peer(addr, now, st) ==
    LET peer == st.peers[addr] IN
    CASE peer.state.tag = "AwaitingPong" ->
           IF now - peer.state.since >= ping_timeout
           THEN wake_disconnect(peer.address, st)
           ELSE st
      [] peer.state.tag = "Idle" ->
           IF now - peer.state.since >= PING_INTERVAL
           THEN wake_ping(peer.address, RngOut(RngStep(st.rng)), now, st)
           ELSE st

\* The loop ending after the first peer.
wake_loop_first_only(keys, now, st) ==
    IF keys = <<>> THEN st
    ELSE wake_peer(Head(keys), now, st)

RECURSIVE wake_loop(_, _, _)
wake_loop(keys, now, st) ==
    IF keys = <<>> THEN st
    ELSE wake_loop(Tail(keys), now, wake_peer(Head(keys), now, st))

received_wake ==
    /\ CanCall
    /\ LET now == clock
           st == wake_loop(Values(peers), now, [peers |-> peers, rng |-> rng, out |-> <<>>])
       IN /\ peers' = st.peers
          /\ rng' = st.rng
          /\ outbox' = outbox \o st.out
          /\ call' = Call("received_wake", NoAddr, NoNonce, TRUE, st.out)
    /\ UNCHANGED <<ping_timeout, hasher, clock, horizon, accepted>>

\* --------------------------------------------------- PingManager::received_ping
\* received_ping taking the peer's ping as a sign of life: the peer goes idle.
received_ping_alive(addr, nonce) ==
    /\ CanCall
    /\ IF addr \in DOMAIN peers
       THEN /\ outbox' = outbox \o <<Pong(addr, nonce)>>
            /\ peers' = [peers EXCEPT ![addr].state = Idle(clock)]
            /\ call' = Call("received_ping", addr, nonce, TRUE, <<Pong(addr, nonce)>>)
       ELSE /\ outbox' = outbox
            /\ peers' = peers
            /\ call' = Call("received_ping", addr, nonce, FALSE, <<>>)
    /\ UNCHANGED <<ping_timeout, rng, hasher, clock, horizon, accepted>>

received_ping(addr, nonce) ==
    /\ CanCall
    /\ IF addr \in DOMAIN peers
       THEN /\ outbox' = outbox \o <<Pong(addr, nonce)>>
            /\ call' = Call("received_ping", addr, nonce, TRUE, <<Pong(addr, nonce)>>)
       ELSE /\ outbox' = outbox
            /\ call' = Call("received_ping", addr, nonce, FALSE, <<>>)
    /\ UNCHANGED <<peers, ping_timeout, rng, hasher, clock, horizon, accepted>>

\* --------------------------------------------------- PingManager::received_pong
\* The caller passes the local time it has just read from the clock.
\* pong_accepted without the comparison of the nonces.
pong_accepted_any_nonce(addr, nonce) ==
    /\ addr \in DOMAIN peers
    /\ peers[addr].state.tag = "AwaitingPong"

pong_accepted(addr, nonce) ==
    /\ addr \in DOMAIN peers
    /\ peers[addr].state.tag = "AwaitingPong"
    /\ nonce = peers[addr].state.nonce

\* received_pong leaving the peer idle since the ping was sent, not since now.
received_pong_stale(addr, nonce, now) ==
    /\ CanCall
    /\ IF pong_accepted(addr, nonce)
       THEN LET since == peers[addr].state.since IN
            /\ peers' = [peers EXCEPT
                   ![addr].latencies = record_latency(@, now - since),
                   ![addr].state = Idle(since)]
            /\ accepted' = [accepted EXCEPT ![addr] = <<now - since>> \o @]
            /\ call' = Call("received_pong", addr, nonce, TRUE, <<>>)
       ELSE /\ UNCHANGED <<peers, accepted>>
            /\ call' = Call("received_pong", addr, nonce, FALSE, <<>>)
    /\ UNCHANGED <<ping_timeout, rng, hasher, clock, horizon, outbox>>

received_pong(addr, nonce, now) ==
    /\ CanCall
    /\ IF pong_accepted(addr, nonce)
       THEN LET since == peers[addr].state.since IN
            /\ peers' = [peers EXCEPT
                   ![addr].latencies = record_latency(@, now - since),
                   ![addr].state = Idle(now)]
            /\ accepted' = [accepted EXCEPT ![addr] = <<now - since>> \o @]
            /\ call' = Call("received_pong", addr, nonce, TRUE, <<>>)
       ELSE /\ UNCHANGED <<peers, accepted>>
            /\ call' = Call("received_pong", addr, nonce, FALSE, <<>>)
    /\ UNCHANGED <<ping_timeout, rng, hasher, clock, horizon, outbox>>

\* ------------------------------------------- Protocol::next, one step of drain
\* A drain that takes the newest output first.
next_newest_first ==
    /\ outbox # <<>>
    /\ outbox' = SubSeq(outbox, 1, Len(outbox) - 1)
    /\ call' = Call("next", NoAddr, NoNonce, TRUE, <<>>)
    /\ UNCHANGED <<peers, ping_timeout, rng, hasher, clock, horizon, accepted>>

next ==
    /\ outbox # <<>>
    /\ outbox' = Tail(outbox)
    /\ call' = Call("next", NoAddr, NoNonce, TRUE, <<>>)
    /\ UNCHANGED <<peers, ping_timeout, rng, hasher, clock, horizon, accepted>>

\* The ping manager driven on its own: the calls, the clock and the drain.
Next ==
    \/ \E p \in PeerIds : peer_negotiated(p) /\ UNCHANGED <<drainvars, hsvars, chainvars, mainvars, sentvars>>
    \/ \E p \in PeerIds : peer_disconnected(p) /\ UNCHANGED <<drainvars, hsvars, chainvars, mainvars, sentvars>>
    \/ received_wake /\ UNCHANGED <<drainvars, hsvars, chainvars, mainvars, sentvars>>
    \/ \E p \in PeerIds, n \in Nonces : received_ping(p, n) /\ UNCHANGED <<drainvars, hsvars, chainvars, mainvars, sentvars>>
    \/ \E p \in PeerIds, n \in Nonces : received_pong(p, n, clock) /\ UNCHANGED <<drainvars, hsvars, chainvars, mainvars, sentvars>>
    \/ elapse /\ UNCHANGED <<drainvars, hsvars, chainvars, mainvars, sentvars>>
    \/ next /\ UNCHANGED <<drainvars, hsvars, chainvars, mainvars, sentvars>>

Spec == Init /\ [][Next]_vars

\* ------------------------------------------------ a peer with a long history
\* The state after n answered pings of peer 1: ping k was answered after Rtt(k)
\* ticks, and the next ping was sent PING_INTERVAL after that answer.
Rtt(k) == k % 2

RECURSIVE SentAt(_)
SentAt(k) == IF k <= 1 THEN 0 ELSE SentAt(k - 1) + Rtt(k - 1) + PING_INTERVAL

History(n) == [i \in 1..n |-> Rtt(n + 1 - i)]

InitLat ==
    \E n \in {MAX_RECORDED_LATENCIES - 1, MAX_RECORDED_LATENCIES} :
        /\ clock = SentAt(n) + Rtt(n)
        /\ horizon = clock + MaxTime
        /\ peers = (1 :> [address |-> 1,
                          state |-> Idle(clock),
                          latencies |-> Truncate(History(n), MAX_RECORDED_LATENCIES)])
        /\ accepted = (1 :> History(n))
        /\ ping_timeout \in {PING_TIMEOUT}
        /\ rng \in Nonces
        /\ hasher \in Perms(PeerIds)
        /\ outbox = <<>>
        /\ call = Call("next", NoAddr, NoNonce, TRUE, <<>>)
        /\ generated = <<>>
        /\ drained = <<>>
        /\ HsInit
        /\ ChainInit
        /\ MainInit
        /\ sent = (1 :> LastPing(SentAt(n), "received_wake", 1, 0))
        /\ replaced = NothingReplaced

SpecLat == InitLat /\ [][Next]_vars

\* -------------------------------------------- the drain, with what it yielded
\* A call leaves the queue as generated and a new drain starts after it; a
\* step of drain yields what the step removed from the queue.
Called == generated' = outbox' /\ drained' = <<>>

\* The output that a step from queue q to queue r took out of q.
Taken(q, r) ==
    q[CHOOSE i \in 1..Len(q) : r = SubSeq(q, 1, i - 1) \o SubSeq(q, i + 1, Len(q))]

Yielded ==
    /\ generated' = generated
    /\ drained' = Append(drained, Taken(outbox, outbox'))

NextDrain ==
    \/ \E p \in PeerIds : peer_negotiated(p) /\ Called /\ UNCHANGED <<hsvars, chainvars, mainvars, sentvars>>
    \/ \E p \in PeerIds : peer_disconnected(p) /\ Called /\ UNCHANGED <<hsvars, chainvars, mainvars, sentvars>>
    \/ received_wake /\ Called /\ UNCHANGED <<hsvars, chainvars, mainvars, sentvars>>
    \/ \E p \in PeerIds, n \in Nonces : received_ping(p, n) /\ Called /\ UNCHANGED <<hsvars, chainvars, mainvars, sentvars>>
    \/ \E p \in PeerIds, n \in Nonces : received_pong(p, n, clock) /\ Called /\ UNCHANGED <<hsvars, chainvars, mainvars, sentvars>>
    \/ elapse /\ UNCHANGED <<drainvars, hsvars, chainvars, mainvars, sentvars>>
    \/ next /\ Yielded /\ UNCHANGED <<hsvars, chainvars, mainvars, sentvars>>

SpecDrain == Init /\ [][NextDrain]_vars

\* ------------------------------------------------------------------ claims
Has(out, o) == \E i \in 1..Len(out) : out[i] = o
TimedOut(p) == Disconnect(p, PeerTimeout("ping"))
Awaiting(p) == p \in DOMAIN peers /\ peers[p].state.tag = "AwaitingPong"
IsIdle(p) == p \in DOMAIN peers /\ peers[p].state.tag = "Idle"

\* Whether this step is a call that ends the outstanding ping of p: a pong
\* that is accepted, a new registration, or the removal of p.
EndsPing(p) ==
    \/ call'.op \in {"peer_negotiated", "peer_disconnected"} /\ call'.addr = p
    \/ call'.op = "received_pong" /\ call'.addr = p /\ call'.ret

\* C1: a peer whose ping was sent at t0 (by peer_negotiated or by a re-ping of
\* received_wake) keeps that ping outstanding, with the same t0, until a pong
\* is accepted for it or it is registered anew or removed; and every
\* received_wake run at a time now with now - t0 >= ping_timeout, the boundary
\* included, emits Disconnect(p, PeerTimeout("ping")) in that call.
C1_PingTimeoutFires ==
    [][\A p \in PeerIds :
          Awaiting(p) =>
            /\ ~EndsPing(p) => p \in DOMAIN peers' /\ peers'[p].state = peers[p].state
            /\ (call'.op = "received_wake" /\ clock' - peers[p].state.since >= ping_timeout)
                  => Has(call'.out, TimedOut(p))]_vars

C1_Witness ==
    /\ call.op = "received_wake"
    /\ \E p \in PeerIds :
          /\ Awaiting(p)
          /\ clock - peers[p].state.since = ping_timeout
          /\ Has(call.out, TimedOut(p))

\* C2: a Disconnect is emitted only by received_wake, only with the reason
\* PeerTimeout("ping"), only for a registered peer that is awaiting a pong,
\* and only when now - since >= ping_timeout for its outstanding ping: never
\* for an idle peer, a younger ping or an unregistered peer.
C2_NoPrematureTimeout ==
    [][\A i \in 1..Len(call'.out) :
          call'.out[i].kind = "disconnect" =>
            /\ call'.op = "received_wake"
            /\ call'.out[i].reason = PeerTimeout("ping")
            /\ Awaiting(call'.out[i].addr)
            /\ clock' - peers[call'.out[i].addr].state.since >= ping_timeout]_vars

C2_Witness ==
    /\ call.op = "received_wake"
    /\ \E p, q \in PeerIds :
          /\ Has(call.out, TimedOut(p))
          /\ Awaiting(q) /\ clock - peers[q].state.since < ping_timeout
          /\ Len(peers[q].latencies) > 0
          /\ ~Has(call.out, TimedOut(q))

\* C3: received_pong(p, n, now) returns false and changes nothing (the peers'
\* states, nonces, timestamps and latency samples, the set of records, the
\* generator, the output queue) unless p is registered, awaiting a pong, and
\* n is the nonce of its outstanding ping.
C3_UnsolicitedPongIgnored ==
    [][(/\ call'.op = "received_pong"
        /\ ~(/\ call'.addr \in DOMAIN peers
             /\ peers[call'.addr].state.tag = "AwaitingPong"
             /\ peers[call'.addr].state.nonce = call'.nonce))
          => /\ call'.ret = FALSE
             /\ call'.out = <<>>
             /\ UNCHANGED <<peers, rng, outbox>>]_vars

C3_Witness ==
    /\ call.op = "received_pong"
    /\ call.ret = FALSE
    /\ Awaiting(call.addr)
    /\ peers[call.addr].state.nonce # call.nonce
    /\ \E q \in PeerIds : IsIdle(q) /\ q # call.addr

\* C4: when p awaits a pong for its ping (nonce, since) and received_pong(p,
\* nonce, now) is called, the call returns true, puts now - since in front of
\* p's latency samples as the one new sample, leaves p idle since now, and
\* emits no output.
C4_MatchingPong ==
    [][(/\ call'.op = "received_pong"
        /\ Awaiting(call'.addr)
        /\ peers[call'.addr].state.nonce = call'.nonce)
          => LET p == call'.addr
                 sample == clock' - peers[p].state.since
             IN /\ call'.ret = TRUE
                /\ call'.out = <<>> /\ outbox' = outbox
                /\ DOMAIN peers' = DOMAIN peers
                /\ peers'[p].state = Idle(clock')
                /\ peers'[p].latencies # <<>>
                /\ Head(peers'[p].latencies) = sample
                /\ Tail(peers'[p].latencies)
                      = Truncate(peers[p].latencies, MAX_RECORDED_LATENCIES - 1)]_vars

C4_Witness ==
    /\ call.op = "received_pong"
    /\ call.ret = TRUE
    /\ IsIdle(call.addr)
    /\ peers[call.addr].state.since = clock
    /\ Len(peers[call.addr].latencies) = 2
    /\ peers[call.addr].latencies[1] > 0

\* C5: peer_negotiated(p) emits exactly one output, ping(p, nonce), and leaves
\* p registered, awaiting the pong for that nonce since the clock's local
\* time; it emits no Disconnect.
C5_PingOnNegotiation ==
    call.op = "peer_negotiated" =>
        /\ call.addr \in DOMAIN peers
        /\ Len(call.out) = 1
        /\ call.out[1].kind = "ping"
        /\ call.out[1].addr = call.addr
        /\ peers[call.addr].state = AwaitingPong(call.out[1].nonce, clock)
        /\ peers[call.addr].address = call.addr

C5_Witness ==
    /\ call.op = "peer_negotiated"
    /\ Awaiting(call.addr)
    /\ clock > 0
    /\ \E q \in PeerIds : q # call.addr /\ Awaiting(q) /\ peers[q].state.nonce # peers[call.addr].state.nonce

\* Whether out holds ping(p, n), Wakeup(ping_timeout), Wakeup(PING_INTERVAL)
\* next to each other, in this order.
RePinged(out, p, n) ==
    \E i \in 1..(Len(out) - 2) :
        /\ out[i] = Ping(p, n)
        /\ out[i + 1] = Wakeup(ping_timeout)
        /\ out[i + 2] = Wakeup(PING_INTERVAL)

Addressed(out, p) == \E i \in 1..Len(out) : out[i].kind # "wakeup" /\ out[i].addr = p

\* C6: received_wake at time now, for each idle peer p: when now - since >=
\* PING_INTERVAL (the boundary included) it emits ping(p, nonce), then
\* Wakeup(ping_timeout), then Wakeup(PING_INTERVAL), and leaves p awaiting
\* the pong for that nonce since now; when now - since < PING_INTERVAL it
\* emits nothing for p and leaves p's record as it was.
C6_RePingIdlePeers ==
    [][call'.op = "received_wake" =>
         \A p \in PeerIds :
            IsIdle(p) =>
               IF clock' - peers[p].state.since >= PING_INTERVAL
               THEN /\ p \in DOMAIN peers'
                    /\ peers'[p].state.tag = "AwaitingPong"
                    /\ peers'[p].state.since = clock'
                    /\ RePinged(call'.out, p, peers'[p].state.nonce)
                    /\ peers'[p].latencies = peers[p].latencies
               ELSE /\ ~Addressed(call'.out, p)
                    /\ p \in DOMAIN peers'
                    /\ peers'[p] = peers[p]]_vars

C6_Witness ==
    /\ call.op = "received_wake"
    /\ \E p, q \in PeerIds :
          /\ Awaiting(p) /\ peers[p].state.since = clock
          /\ peers[p].latencies # <<>>
          /\ clock = PING_INTERVAL
          /\ RePinged(call.out, p, peers[p].state.nonce)
          /\ IsIdle(q) /\ ~Addressed(call.out, q)
          /\ clock - peers[q].state.since = PING_INTERVAL - 1

\* C7: received_ping(p, n) for a registered peer emits exactly pong(p, n) and
\* returns true, for an unregistered peer emits nothing and returns false;
\* either way the peers' records and the generator are unchanged, so that the
\* peer's own outstanding ping keeps running.
C7_PingReply ==
    [][call'.op = "received_ping" =>
         /\ UNCHANGED <<peers, rng, clock>>
         /\ IF call'.addr \in DOMAIN peers
            THEN call'.ret = TRUE /\ call'.out = <<Pong(call'.addr, call'.nonce)>>
            ELSE call'.ret = FALSE /\ call'.out = <<>>
         /\ outbox' = outbox \o call'.out]_vars

C7_Witness ==
    /\ call.op = "received_ping"
    /\ call.ret = TRUE
    /\ Awaiting(call.addr)
    /\ clock - peers[call.addr].state.since >= ping_timeout
    /\ call.nonce # peers[call.addr].state.nonce
    /\ outbox = <<Pong(call.addr, call.nonce)>>

\* C8: every registered peer holds at most MAX_RECORDED_LATENCIES samples,
\* and they are the round trips of the most recent accepted pongs of its
\* current registration, newest first: the first min(k, 64) of the k
\* accepted, so that the oldest is the one dropped by the 65th.
C8_BoundedLatencies ==
    \A p \in DOMAIN peers :
        /\ Len(peers[p].latencies) <= MAX_RECORDED_LATENCIES
        /\ p \in DOMAIN accepted
        /\ peers[p].latencies
              = SubSeq(accepted[p], 1,
                       IF Len(accepted[p]) <= MAX_RECORDED_LATENCIES
                       THEN Len(accepted[p]) ELSE MAX_RECORDED_LATENCIES)

C8_Witness ==
    /\ call.op = "received_pong"
    /\ call.ret = TRUE
    /\ Len(accepted[call.addr]) = MAX_RECORDED_LATENCIES + 1
    /\ Len(peers[call.addr].latencies) = MAX_RECORDED_LATENCIES
    /\ accepted[call.addr][MAX_RECORDED_LATENCIES + 1]
          # accepted[call.addr][MAX_RECORDED_LATENCIES]

Pings(out) == {i \in 1..Len(out) : out[i].kind = "ping"}
Wakeups(out) == {i \in 1..Len(out) : out[i].kind = "wakeup"}

\* C9: the set of ping records starts empty and changes only by
\* peer_negotiated(p), which adds p's, and peer_disconnected(p), which removes
\* it; for a peer p without a record, received_wake emits no ping or
\* Disconnect for p and no Wakeup beyond the two of each ping it sends,
\* received_ping(p, _) returns false and sends no pong, received_pong(p, ..)
\* returns false, and peer_disconnected(p) changes and emits nothing.
C9_RecordLifecycle ==
    [][/\ DOMAIN peers' =
            CASE call'.op = "peer_negotiated" -> DOMAIN peers \cup {call'.addr}
              [] call'.op = "peer_disconnected" -> DOMAIN peers \ {call'.addr}
              [] OTHER -> DOMAIN peers
       /\ \A p \in PeerIds \ DOMAIN peers :
            /\ call'.op = "received_wake" =>
                  /\ ~Addressed(call'.out, p)
                  /\ Cardinality(Wakeups(call'.out)) = 2 * Cardinality(Pings(call'.out))
            /\ (call'.op = "received_ping" /\ call'.addr = p) =>
                  call'.ret = FALSE /\ call'.out = <<>> /\ outbox' = outbox
            /\ (call'.op = "received_pong" /\ call'.addr = p) =>
                  call'.ret = FALSE /\ call'.out = <<>> /\ outbox' = outbox
            /\ (call'.op = "peer_disconnected" /\ call'.addr = p) =>
                  call'.out = <<>> /\ UNCHANGED <<peers, rng, outbox>>]_vars

C9_Witness ==
    /\ call.op = "peer_disconnected"
    /\ call.addr \notin DOMAIN peers
    /\ call.addr \notin DOMAIN accepted
    /\ \E q \in PeerIds : Awaiting(q) /\ clock - peers[q].state.since >= ping_timeout

\* C10: in every call in which the ping manager sends a ping, in
\* peer_negotiated as in received_wake, it also requests Wakeup(ping_timeout).
C10_EveryPingHasTimer ==
    (call.op \in {"peer_negotiated", "received_wake"} /\ Pings(call.out) # {})
        => Has(call.out, Wakeup(ping_timeout))
\* ------------------------------------------------------------------------ C14
\* The outputs of drained that are addressed to p, in their order.
WritesTo(out, p) == SelectSeq(out, LAMBDA o : o.kind # "wakeup" /\ o.addr = p)

IsPrefix(a, b) == Len(a) <= Len(b) /\ a = SubSeq(b, 1, Len(a))

Inbound == "Inbound"
Outbound == "Outbound"
Links == {Inbound, Outbound}
\* Link::is_outbound holding of every link.
is_outbound_always(link) == link \in Links

is_outbound(link) == link = Outbound

\* ---------------------------------------------------------- the wire messages
\* VersionMessage, reduced to the fields the handshake reads.
VersionMessage(version, services, timestamp, nonce) ==
    [kind |-> "version", version |-> version, services |-> services,
     timestamp |-> timestamp, nonce |-> nonce]
Verack == [kind |-> "verack"]

\* ------------------------------------------------------------------ PeerDummy
PeerDummy(addr, services, protocol_version, time) ==
    [addr |-> addr, services |-> services,
     protocol_version |-> protocol_version, time |-> time]

\* PeerDummy::version announcing the protocol version before the dummy's.
version_older(dummy, nonce) ==
    VersionMessage(dummy.protocol_version - 1, dummy.services, dummy.time, nonce)

\* PeerDummy::version
version(dummy, nonce) ==
    VersionMessage(dummy.protocol_version, dummy.services, dummy.time, nonce)

\* ------------------------------------------------------ the peer manager's rules
\* The lowest protocol version accepted, the services asked of a remote, and
\* the largest clock difference tolerated (90 minutes, in ticks).
MIN_PROTOCOL_VERSION == 70012
MAX_TIME_ADJUSTMENT == 180
NETWORK == "NETWORK"
COMPACT_FILTERS == "COMPACT_FILTERS"
REQUIRED_SERVICES == {NETWORK, COMPACT_FILTERS}

\* The nonces of the versions we have sent on the connections we hold.
OurNonces == {conns[a].nonce : a \in DOMAIN conns} \ {NoNonce}

\* Why the peer manager refuses a remote's version, or "none". The services
\* are asked of the peers we connect to.
Refusal(link, msg) ==
    IF msg.version < MIN_PROTOCOL_VERSION THEN "PeerProtocolVersion"
    ELSE IF is_outbound(link) /\ ~(REQUIRED_SERVICES \subseteq msg.services)
         THEN "PeerServices"
    ELSE IF msg.nonce \in OurNonces THEN "SelfConnection"
    ELSE IF msg.timestamp - clock > MAX_TIME_ADJUSTMENT
            \/ clock - msg.timestamp > MAX_TIME_ADJUSTMENT THEN "PeerTime"
    ELSE "none"

\* ----------------------------------------------- the peer manager's outputs
Write(addr, what) == [kind |-> "write", addr |-> addr, msg |-> what]
Connect(addr) == [kind |-> "connect", addr |-> addr]
\* An event of a remote; data is the services of a negotiated remote, or the
\* reason a connection or an attempt ended.
Event(name, addr, link, data) ==
    [kind |-> "event", name |-> name, addr |-> addr, link |-> link,
     data |-> data]

\* The record the peer manager keeps of a remote.
\* The record the peer manager keeps of a remote: link, handshake state, the
\* nonce of our version, the services of the remote's version; and, for the
\* record, whether Protocol::attempted was called for this connection and
\* which handshake messages of the remote have arrived on it.
Conn(link, state, nonce, services, attempt, got) ==
    [link |-> link, state |-> state, nonce |-> nonce, services |-> services,
     attempt |-> attempt, got |-> got]

\* The outputs for addr go on where its connection stands, or start anew with
\* a new connection: those of an earlier connection count as drained.
Emit(addr, outs) ==
    emitted' = [emitted EXCEPT ![addr] =
                   (IF addr \in DOMAIN conns THEN @ ELSE <<>>) \o outs]

\* An event reaches the protocol: before initialize or after it.
Delivered == early' = (early \/ inits = 0)

\* ------------------------------------------------------- PeerManager::connect
peermgr_connect(addr) ==
    /\ IF addr \in DOMAIN conns
       THEN UNCHANGED <<conns, emitted>>
       ELSE /\ conns' = Insert(conns, addr,
                               Conn(Outbound, "Connecting", NoNonce, {}, FALSE, {}))
            /\ Emit(addr, <<Connect(addr)>>)
    /\ UNCHANGED <<pingvars, inits, early>>

\* -------------------------------------------------------- Protocol::attempted
attempted(addr) ==
    /\ conns' = IF addr \in DOMAIN conns
                THEN [conns EXCEPT ![addr].attempt = TRUE]
                ELSE Insert(conns, addr,
                            Conn(Outbound, "Connecting", NoNonce, {}, TRUE, {}))
    /\ Emit(addr, <<>>)
    /\ Delivered
    /\ UNCHANGED <<pingvars, inits>>

\* -------------------------------------------------------- Protocol::connected
\* The connection is established: PeerConnected is emitted, and on an
\* outbound link our version is sent.
connected(addr, link) ==
    /\ LET attempt == addr \in DOMAIN conns /\ conns[addr].attempt
           nonce == IF is_outbound(link) THEN RngOut(RngStep(rng)) ELSE NoNonce
       IN /\ conns' = Insert(conns, addr,
                             Conn(link, "AwaitingVersion", nonce, {}, attempt, {}))
          /\ Emit(addr, <<Event("PeerConnected", addr, link, {})>>
                          \o (IF is_outbound(link)
                              THEN <<Write(addr, "version")>> ELSE <<>>))
          /\ rng' = IF is_outbound(link) THEN RngStep(rng) ELSE rng
    /\ Delivered
    /\ UNCHANGED <<peers, ping_timeout, hasher, clock, horizon, outbox, call,
                   accepted, inits>>

\* --------------------------------------------------------- Protocol::received
\* The remote's version is accepted: on an inbound link our version is sent
\* now, and on both our verack.
received_version(addr, msg) ==
    /\ LET c == conns[addr]
           nonce == IF is_outbound(c.link) THEN c.nonce ELSE RngOut(RngStep(rng))
       IN /\ conns' = [conns EXCEPT ![addr] =
                           Conn(c.link, "AwaitingVerack", nonce, msg.services,
                                c.attempt, c.got \cup {"version"})]
          /\ Emit(addr, (IF is_outbound(c.link)
                          THEN <<>> ELSE <<Write(addr, "version")>>)
                         \o <<Write(addr, "verack")>>)
          /\ rng' = IF is_outbound(c.link) THEN rng ELSE RngStep(rng)
    /\ UNCHANGED <<peers, ping_timeout, hasher, clock, horizon, outbox, call,
                   accepted>>

\* The remote's verack completes the handshake: PeerNegotiated is emitted and
\* the ping manager is told.
received_verack(addr) ==
    /\ LET c == conns[addr]
       IN /\ conns' = [conns EXCEPT ![addr] =
                           Conn(c.link, "Negotiated", c.nonce, c.services,
                                c.attempt, c.got \cup {"verack"})]
          /\ Emit(addr, <<Event("PeerNegotiated", addr, c.link, c.services)>>)
    /\ peer_negotiated(addr)

\* A message the peer manager does not accept ends in a request to disconnect.
refused(addr, reason) ==
    /\ conns' = [conns EXCEPT ![addr].state = "Disconnecting"]
    /\ Emit(addr, <<Disconnect(addr, reason)>>)
    /\ UNCHANGED pingvars

\* received taking the remote's verack before the remote's version as well.
received_early_verack(addr, msg) ==
    /\ IF addr \notin DOMAIN conns
       THEN UNCHANGED <<pingvars, conns, emitted>>
       ELSE LET c == conns[addr]
            IN IF c.state \in {"Connecting", "Disconnecting"}
               THEN UNCHANGED <<pingvars, conns, emitted>>
               ELSE IF msg.kind = "version" /\ c.state = "AwaitingVersion"
               THEN IF Refusal(c.link, msg) = "none"
                    THEN received_version(addr, msg)
                    ELSE refused(addr, Refusal(c.link, msg))
               ELSE IF msg.kind = "verack"
                       /\ c.state \in {"AwaitingVersion", "AwaitingVerack"}
               THEN received_verack(addr)
               ELSE refused(addr, "PeerMisbehaving")
    /\ Delivered
    /\ UNCHANGED inits

received(addr, msg) ==
    /\ IF addr \notin DOMAIN conns
       THEN UNCHANGED <<pingvars, conns, emitted>>
       ELSE LET c == conns[addr]
            IN IF c.state \in {"Connecting", "Disconnecting"}
               THEN UNCHANGED <<pingvars, conns, emitted>>
               ELSE IF msg.kind = "version" /\ c.state = "AwaitingVersion"
               THEN IF Refusal(c.link, msg) = "none"
                    THEN received_version(addr, msg)
                    ELSE refused(addr, Refusal(c.link, msg))
               ELSE IF msg.kind = "verack" /\ c.state = "AwaitingVerack"
               THEN received_verack(addr)
               ELSE refused(addr, "PeerMisbehaving")
    /\ Delivered
    /\ UNCHANGED inits

\* ----------------------------------------------------- Protocol::disconnected
\* The record goes; a connection that was established ends with
\* PeerDisconnected, an attempt that never was with PeerConnectionFailed.
\* disconnected taking every record for an established connection.
disconnected_never_failed(addr, reason) ==
    /\ IF addr \notin DOMAIN conns
       THEN UNCHANGED <<pingvars, conns, emitted>>
       ELSE /\ conns' = Remove(conns, addr)
            /\ IF conns[addr].state = "Connected"
               THEN /\ Emit(addr, <<Event("PeerConnectionFailed", addr,
                                           conns[addr].link, reason)>>)
                    /\ UNCHANGED pingvars
               ELSE /\ Emit(addr, <<Event("PeerDisconnected", addr,
                                           conns[addr].link, reason)>>)
                    /\ peer_disconnected(addr)
    /\ Delivered
    /\ UNCHANGED inits

disconnected(addr, reason) ==
    /\ IF addr \notin DOMAIN conns
       THEN UNCHANGED <<pingvars, conns, emitted>>
       ELSE /\ conns' = Remove(conns, addr)
            /\ IF conns[addr].state = "Connecting"
               THEN /\ Emit(addr, <<Event("PeerConnectionFailed", addr,
                                           conns[addr].link, reason)>>)
                    /\ UNCHANGED pingvars
               ELSE /\ Emit(addr, <<Event("PeerDisconnected", addr,
                                           conns[addr].link, reason)>>)
                    /\ peer_disconnected(addr)
    /\ Delivered
    /\ UNCHANGED inits

\* ================================================== the test peer (tests/peer.rs)
\* The dummies a test connects: the one of Peer::connect_addr, with the
\* services, our protocol version and our time, and the ones that lack the
\* services, are a version behind, or have a clock far ahead.
connect_addr(a) == PeerDummy(a, REQUIRED_SERVICES, MIN_PROTOCOL_VERSION, clock)

Dummies ==
    UNION {{connect_addr(a),
            PeerDummy(a, {}, MIN_PROTOCOL_VERSION, clock),
            PeerDummy(a, REQUIRED_SERVICES, MIN_PROTOCOL_VERSION - 1, clock),
            PeerDummy(a, REQUIRED_SERVICES, MIN_PROTOCOL_VERSION,
                      clock + MAX_TIME_ADJUSTMENT + 1)} : a \in PeerIds}

\* The nonce of a remote's version: one of ours, or none of ours.
RemoteNonces == Nonces \cup {NoNonce}

\* Peer::messages: the messages written to addr, in the order of the queue.
messages(addr) ==
    LET w == SelectSeq(emitted[addr], LAMBDA o : o.kind = "write")
    IN [i \in 1..Len(w) |-> w[i].msg]

\* Where connect is: the line it is at, its arguments, and the nonce it gave
\* the remote's version. A failed expect leaves connect at "panicked".
At(pc) == script.pc = pc
Goto(pc) == script' = [script EXCEPT !.pc = pc]

\* ------------------------------------------------------ simulator::Peer::init
\* init without its guard: every call initializes the protocol.
init_unguarded ==
    /\ At("idle")
    /\ initialized' = TRUE
    /\ inits' = inits + 1
    /\ UNCHANGED <<pingvars, script, conns, emitted, early>>

init ==
    /\ At("idle")
    /\ initialized' = TRUE
    /\ inits' = IF initialized THEN inits ELSE inits + 1
    /\ UNCHANGED <<pingvars, script, conns, emitted, early>>

\* -------------------------------------------------------------- Peer::received
Peer_received(remote, payload) ==
    /\ At("idle")
    /\ CanCall
    /\ received(remote, payload)
    /\ UNCHANGED <<initialized, script>>

\* --------------------------------------------------------------- Peer::connect
\* l.256: init, inlined.
connect(remote, link) ==
    /\ At("idle")
    /\ CanCall
    /\ remote.addr \notin DOMAIN conns
    /\ initialized' = TRUE
    /\ inits' = IF initialized THEN inits ELSE inits + 1
    /\ script' = [pc |-> "dial", remote |-> remote, link |-> link,
                  nonce |-> NoNonce]
    /\ UNCHANGED <<pingvars, conns, emitted, early>>

\* l.261-263
connect_dial ==
    /\ At("dial")
    /\ IF is_outbound(script.link)
       THEN peermgr_connect(script.remote.addr)
       ELSE UNCHANGED <<pingvars, conns, emitted, inits, early>>
    /\ Goto("connected")
    /\ UNCHANGED initialized

\* l.266
connect_connected ==
    /\ At("connected")
    /\ connected(script.remote.addr, script.link)
    /\ Goto("version")
    /\ UNCHANGED initialized

\* l.269-272; the nonce comes from a clone of the protocol's generator.
connect_version ==
    /\ At("version")
    /\ \E nonce \in RemoteNonces :
           /\ received(script.remote.addr, version(script.remote, nonce))
           /\ script' = [script EXCEPT !.pc = "messages", !.nonce = nonce]
    /\ UNCHANGED initialized

\* l.274-286: our version, and our verack after it, or the test fails.
connect_messages ==
    /\ At("messages")
    /\ LET m == messages(script.remote.addr)
       IN IF \E i, j \in 1..Len(m) : i < j /\ m[i] = "version" /\ m[j] = "verack"
          THEN Goto("verack")
          ELSE Goto("panicked")
    /\ UNCHANGED <<pingvars, initialized, conns, emitted, inits, early>>

\* l.289
connect_verack ==
    /\ At("verack")
    /\ received(script.remote.addr, Verack)
    /\ Goto("event")
    /\ UNCHANGED initialized

\* l.292-302: drain up to the Negotiated event of the remote, or the test
\* fails. The ping of the new peer is queued before or after that event.
connect_event ==
    /\ At("event")
    /\ IF \E i \in 1..Len(emitted[script.remote.addr]) :
             LET o == emitted[script.remote.addr][i]
             IN /\ o.kind = "event"
                /\ o.name = "PeerNegotiated"
                /\ o.addr = script.remote.addr
                /\ NETWORK \in o.data
       THEN /\ script' = Idling
            /\ outbox' \in {outbox, <<>>}
       ELSE /\ Goto("panicked")
            /\ outbox' = <<>>
    /\ UNCHANGED <<peers, ping_timeout, rng, hasher, clock, horizon, call,
                   accepted, initialized, conns, emitted, inits, early>>

\* ------------------------------------------------------------- the reactor
\* The reactor's calls, as net::Protocol documents them: after initialize;
\* attempted, then connected, for a connection we make, connected alone for
\* one made to us; a dial error for an attempt that fails, the protocol's
\* reason for a connection it asked to close, a connection error otherwise.
Reasons == {"DialError", "ConnectionError", "Protocol"}

reactor_attempted(addr) ==
    /\ At("idle") /\ CanCall /\ inits > 0
    /\ addr \in DOMAIN conns => conns[addr].state = "Connecting"
    /\ attempted(addr)
    /\ UNCHANGED <<initialized, script>>

reactor_connected(addr, link) ==
    /\ At("idle") /\ CanCall /\ inits > 0
    /\ IF is_outbound(link)
       THEN addr \in DOMAIN conns /\ conns[addr].state = "Connecting"
            /\ conns[addr].attempt
       ELSE addr \notin DOMAIN conns
    /\ connected(addr, link)
    /\ UNCHANGED <<initialized, script>>

reactor_disconnected(addr, reason) ==
    /\ At("idle") /\ CanCall /\ inits > 0
    /\ addr \in DOMAIN conns
    /\ reason = "DialError" <=> conns[addr].state = "Connecting"
    /\ reason = "Protocol" <=> conns[addr].state = "Disconnecting"
    /\ disconnected(addr, reason)
    /\ UNCHANGED <<initialized, script>>

\* Peer::drain, one output of the ping manager at a time.
Peer_drain ==
    /\ At("idle")
    /\ next
    /\ UNCHANGED hsvars

NextHs ==
    \/ init /\ UNCHANGED <<drainvars, chainvars, mainvars, sentvars>>
    \/ \E d \in Dummies, l \in Links : connect(d, l) /\ UNCHANGED <<drainvars, chainvars, mainvars, sentvars>>
    \/ connect_dial /\ UNCHANGED <<drainvars, chainvars, mainvars, sentvars>>
    \/ connect_connected /\ UNCHANGED <<drainvars, chainvars, mainvars, sentvars>>
    \/ connect_version /\ UNCHANGED <<drainvars, chainvars, mainvars, sentvars>>
    \/ connect_messages /\ UNCHANGED <<drainvars, chainvars, mainvars, sentvars>>
    \/ connect_verack /\ UNCHANGED <<drainvars, chainvars, mainvars, sentvars>>
    \/ connect_event /\ UNCHANGED <<drainvars, chainvars, mainvars, sentvars>>
    \/ \E d \in Dummies, n \in RemoteNonces :
           Peer_received(d.addr, version(d, n)) /\ UNCHANGED <<drainvars, chainvars, mainvars, sentvars>>
    \/ \E a \in PeerIds : Peer_received(a, Verack) /\ UNCHANGED <<drainvars, chainvars, mainvars, sentvars>>
    \/ \E a \in PeerIds : reactor_attempted(a) /\ UNCHANGED <<drainvars, chainvars, mainvars, sentvars>>
    \/ \E a \in PeerIds, l \in Links : reactor_connected(a, l) /\ UNCHANGED <<drainvars, chainvars, mainvars, sentvars>>
    \/ \E a \in PeerIds, r \in Reasons : reactor_disconnected(a, r) /\ UNCHANGED <<drainvars, chainvars, mainvars, sentvars>>
    \/ Peer_drain /\ UNCHANGED <<drainvars, chainvars, mainvars, sentvars>>

\* No ping manager call of this specification walks the peers map: one
\* order of it is enough.
InitHs == Init /\ hasher = [i \in PeerIds |-> i]

SpecHs == InitHs /\ [][NextHs]_vars

\* ------------------------------------------------------------------------ C11
\* The events of a given name that the peer manager emitted for addr on its
\* connection.
EventsOf(addr, name) ==
    SelectSeq(emitted[addr], LAMBDA o : o.kind = "event" /\ o.name = name)

\* The remote of the connect under way meets the preconditions: a supported
\* protocol version, the required services, a nonce that is none of those we
\* sent before its version arrived, and a timestamp within the tolerance.
Meets ==
    LET d == script.remote
        others == IF is_outbound(script.link) THEN DOMAIN conns
                  ELSE DOMAIN conns \ {d.addr}
    IN /\ d.protocol_version >= MIN_PROTOCOL_VERSION
       /\ {NETWORK, COMPACT_FILTERS} \subseteq d.services
       /\ script.nonce \notin {conns[b].nonce : b \in others} \ {NoNonce}
       /\ d.time - clock <= MAX_TIME_ADJUSTMENT
       /\ clock - d.time <= MAX_TIME_ADJUSTMENT

\* C11: for a remote that meets the preconditions and either link direction,
\* connected, then the remote's version, then the remote's verack leave the
\* peer Negotiated with exactly one PeerNegotiated event emitted for its
\* address, carrying the remote's services; connect's expectations on the
\* way are met.
C11_HandshakeCompletes ==
    script.pc \in {"messages", "verack", "event", "panicked"} /\ Meets =>
        LET a == script.remote.addr
        IN /\ script.pc # "panicked"
           /\ a \in DOMAIN conns
           /\ script.pc \in {"messages", "verack"} =>
                  conns[a].state = "AwaitingVerack"
           /\ script.pc = "event" =>
                  /\ conns[a].state = "Negotiated"
                  /\ conns[a].link = script.link
                  /\ EventsOf(a, "PeerNegotiated")
                       = <<Event("PeerNegotiated", a, script.link,
                                 script.remote.services)>>

\* Reached: an inbound and an outbound remote, both meeting the
\* preconditions, the first negotiated before and the second just now.
C11_Witness ==
    /\ script.pc = "event"
    /\ Meets
    /\ script.link = Inbound
    /\ \E b \in DOMAIN conns :
           /\ b # script.remote.addr
           /\ conns[b].link = Outbound
           /\ conns[b].state = "Negotiated"

\* ------------------------------------------------------------------------ C12
\* The handshake messages queued for addr on its connection, in queue order.
Queued(addr) ==
    LET w == SelectSeq(emitted[addr], LAMBDA o : o.kind = "write")
    IN [i \in 1..Len(w) |-> w[i].msg]

Before(m, x, y) == \E i, j \in 1..Len(m) : i < j /\ m[i] = x /\ m[j] = y

C13_NegotiatedAfterHandshake ==
    \A a \in PeerIds :
        \/ a \in DOMAIN conns /\ conns[a].state = "Negotiated"
        \/ a \in DOMAIN conns /\ EventsOf(a, "PeerNegotiated") # <<>>
        \/ a \in DOMAIN peers
        => /\ a \in DOMAIN conns
           /\ conns[a].got = {"version", "verack"}
           /\ Before(Queued(a), "version", "verack")
           /\ Len(EventsOf(a, "PeerConnected")) = 1

\* Reached: a remote that connected to us and was negotiated by messages the
\* test delivered one by one, registered with the ping manager.
C13_Witness ==
    /\ script.pc = "idle"
    /\ \E a \in DOMAIN conns :
           /\ conns[a].link = Inbound
           /\ conns[a].state = "Negotiated"
           /\ ~conns[a].attempt
           /\ a \in DOMAIN peers
           /\ Len(EventsOf(a, "PeerNegotiated")) = 1

\* ------------------------------------------------------------------------ C18
\* The names of the events emitted for addr on its connection, in order.
Lifecycle(addr) ==
    LET ev == SelectSeq(emitted[addr], LAMBDA o : o.kind = "event")
    IN [i \in 1..Len(ev) |-> ev[i].name]

\* C18: of the events of one connection, PeerDisconnected comes only after a
\* PeerConnected; PeerConnectionFailed comes only where there is no
\* PeerConnected, for a dial error, and no PeerDisconnected follows it;
\* PeerNegotiated comes only after PeerConnected and before any
\* PeerDisconnected.
C18_PeerLifecycle ==
    \A a \in PeerIds :
        LET ev == Lifecycle(a)
        IN \A j \in 1..Len(ev) :
               /\ ev[j] = "PeerDisconnected" =>
                      \E i \in 1..(j - 1) : ev[i] = "PeerConnected"
               /\ ev[j] = "PeerConnectionFailed" =>
                      /\ \A i \in 1..Len(ev) : ev[i] # "PeerConnected"
                      /\ \A i \in (j + 1)..Len(ev) : ev[i] # "PeerDisconnected"
                      /\ EventsOf(a, "PeerConnectionFailed")[1].data = "DialError"
               /\ ev[j] = "PeerNegotiated" =>
                      /\ \E i \in 1..(j - 1) : ev[i] = "PeerConnected"
                      /\ \A i \in 1..(j - 1) : ev[i] # "PeerDisconnected"

\* Reached: one remote was connected, negotiated and disconnected, and the
\* attempt to reach the other failed.
C18_Witness ==
    \E a, b \in PeerIds :
        /\ Lifecycle(a) = <<"PeerConnected", "PeerNegotiated", "PeerDisconnected">>
        /\ Lifecycle(b) = <<"PeerConnectionFailed">>

\* ------------------------------------------------------------------------ C19
\* C19: every connection on an outbound link had Protocol::attempted called
\* for its address before Protocol::connected, and no connection on an
\* inbound link had.
C19_AttemptedBeforeConnected ==
    \A a \in DOMAIN conns :
        conns[a].state # "Connecting" =>
            (conns[a].link = Outbound <=> conns[a].attempt)

Branches == {"a", "b"}
Block(h, b) == [height |-> h, hash |-> <<h, b>>]

\* The nonempty runs of at most n headers.
Runs(n) == UNION {[1..k -> Branches] : k \in 1..n}

\* ------------------------------------------------------------ the chain events
BlockConnected(block) ==
    [name |-> "BlockConnected", hash |-> block.hash, height |-> block.height]
BlockDisconnected(block) ==
    [name |-> "BlockDisconnected", hash |-> block.hash, height |-> block.height]

\* The reverted blocks of a chain, from the earliest to the tip.
reverted_ascending(old, f) ==
    [i \in 1..(Len(old) - f) |-> BlockDisconnected(old[f + i])]

\* The blocks of the old chain above the fork, from the tip to the earliest.
reverted(old, f) ==
    [i \in 1..(Len(old) - f) |-> BlockDisconnected(old[Len(old) + 1 - i])]

\* The blocks of the new chain above the fork, from the earliest to the tip.
connected_blocks(new, f) ==
    [i \in 1..(Len(new) - f) |-> BlockConnected(new[f + i])]

\* ------------------------------------------------- importing a run of headers
\* Headers that build on the block at height f of the active chain. A run
\* that makes a longer chain than the active one moves the tip: the blocks
\* above f are reverted and the run is connected. Any other run is kept
\* aside and nothing is emitted.
import_headers(f, hdrs) ==
    /\ f \in 0..Len(active)
    /\ f + Len(hdrs) <= MaxHeight
    /\ f < Len(active) => Block(f + 1, hdrs[1]) # active[f + 1]
    /\ LET new == SubSeq(active, 1, f)
                    \o [i \in 1..Len(hdrs) |-> Block(f + i, hdrs[i])]
       IN IF Len(new) > Len(active)
          THEN /\ active' = new
               /\ blockevents' = reverted(active, f) \o connected_blocks(new, f)
               /\ reorged' = [from |-> active, fork |-> f]
          ELSE /\ blockevents' = <<>>
               /\ reorged' = [from |-> active, fork |-> Len(active)]
               /\ UNCHANGED active
    /\ UNCHANGED <<filters, requested, clientlog>>

NextChain ==
    \E f \in 0..MaxHeight, hdrs \in Runs(MaxHeight) :
        import_headers(f, hdrs) /\ UNCHANGED <<pingvars, drainvars, hsvars, mainvars, sentvars>>

SpecChain == Init /\ [][NextChain]_vars

\* ------------------------------------------------------------------------ C16
\* C16: a re-org from a tip at height h1 to a tip at height h2 with the fork
\* at height f emits BlockDisconnected for the heights h1 down to f + 1 of
\* the old chain, then BlockConnected for the heights f + 1 up to h2 of the
\* new chain, and nothing else; no BlockConnected precedes a
\* BlockDisconnected.
C16_ReorgEventOrder ==
    LET old == reorged.from
        f == reorged.fork
        h1 == Len(old)
        h2 == Len(active)
        ev == blockevents
    IN /\ Len(ev) = (h1 - f) + (h2 - f)
       /\ \A i \in 1..(h1 - f) :
              /\ ev[i].name = "BlockDisconnected"
              /\ ev[i].height = h1 + 1 - i
              /\ ev[i].hash = old[h1 + 1 - i].hash
       /\ \A i \in 1..(h2 - f) :
              /\ ev[(h1 - f) + i].name = "BlockConnected"
              /\ ev[(h1 - f) + i].height = f + i
              /\ ev[(h1 - f) + i].hash = active[f + i].hash
       /\ \A i, j \in 1..Len(ev) :
              ev[i].name = "BlockConnected" /\ ev[j].name = "BlockDisconnected"
                  => j < i
       /\ \A i \in 1..f : i <= h1 /\ active[i] = old[i]

\* Reached: a chain of two blocks was replaced from genesis by a competing
\* chain of three.
C16_Witness ==
    /\ Len(reorged.from) = 2
    /\ reorged.fork = 0
    /\ Len(active) = 3
    /\ Len(blockevents) = 5

\* ============================================================= the filter sync
\* ----------------------------------------------------------- the sync's events
FilterProcessed(block, matched, valid) ==
    [name |-> "FilterProcessed", hash |-> block.hash, height |-> block.height,
     matched |-> matched, valid |-> valid]
BlockMatched(block) ==
    [name |-> "BlockMatched", hash |-> block.hash, height |-> block.height]

\* The lowest height whose filter is still to be processed.
Unprocessed == {h \in Heights : filters[h] \in {"none", "invalid"}}
NextFilterHeight == CHOOSE h \in Unprocessed : \A k \in Unprocessed : h <= k

\* ------------------------------------------------------- a filter is received
\* A matching filter that schedules no block.
filter_received_unscheduled(h, matched, valid) ==
    /\ Unprocessed # {}
    /\ h = NextFilterHeight
    /\ h <= Len(active)
    /\ ~valid => filters[h] = "none"
    /\ clientlog' = Append(clientlog, FilterProcessed(active[h], matched, valid))
    /\ filters' = [filters EXCEPT ![h] =
                       IF ~valid THEN "invalid"
                       ELSE IF matched THEN "matched" ELSE "unmatched"]
    /\ UNCHANGED <<active, blockevents, reorged, requested>>

\* The filter of the next height arrives. It is checked against the filter
\* headers and matched against the watchlist, FilterProcessed is emitted,
\* and for a valid filter that matches the block is scheduled for download.
\* A filter that is not valid is asked for again.
filter_received(h, matched, valid) ==
    /\ Unprocessed # {}
    /\ h = NextFilterHeight
    /\ h <= Len(active)
    /\ ~valid => filters[h] = "none"
    /\ clientlog' = Append(clientlog, FilterProcessed(active[h], matched, valid))
    /\ filters' = [filters EXCEPT ![h] =
                       IF ~valid THEN "invalid"
                       ELSE IF matched THEN "matched" ELSE "unmatched"]
    /\ requested' = IF valid /\ matched THEN requested \cup {h} ELSE requested
    /\ UNCHANGED <<active, blockevents, reorged>>

\* --------------------------------------------------------- a block is received
\* A block that was asked for arrives: BlockMatched is emitted for it. A
\* block nobody asked for is dropped.
block_received(h) ==
    /\ h <= Len(active)
    /\ IF h \in requested
       THEN /\ clientlog' = Append(clientlog, BlockMatched(active[h]))
            /\ requested' = requested \ {h}
       ELSE UNCHANGED <<clientlog, requested>>
    /\ UNCHANGED <<active, blockevents, reorged, filters>>

\* Headers arrive that extend the tip.
headers_extended(hdrs) == import_headers(Len(active), hdrs)

NextFilter ==
    \/ \E hdrs \in Runs(MaxHeight) :
           headers_extended(hdrs) /\ UNCHANGED <<pingvars, drainvars, hsvars, mainvars, sentvars>>
    \/ \E h \in Heights, matched, valid \in BOOLEAN :
           filter_received(h, matched, valid)
               /\ UNCHANGED <<pingvars, drainvars, hsvars, mainvars, sentvars>>
    \/ \E h \in Heights :
           block_received(h) /\ UNCHANGED <<pingvars, drainvars, hsvars, mainvars, sentvars>>

\* The sync follows one chain, whatever the generator and the peers map.
InitFilter == Init /\ rng = 0 /\ hasher = [i \in PeerIds |-> i]

SpecFilter == InitFilter /\ [][NextFilter]_vars

\* A block that is scheduled for download is delivered in the end: a request
\* that times out is issued again to another peer.
SpecFilterLive ==
    /\ SpecFilter
    /\ \A h \in Heights :
           WF_vars(h \in requested /\ block_received(h)
                       /\ UNCHANGED <<pingvars, drainvars, hsvars, mainvars, sentvars>>)

\* ------------------------------------------------------------------------ C17
\* The filter of the block at height h was processed as valid and matching.
ProcessedMatching(h) ==
    /\ h <= Len(active)
    /\ \E i \in 1..Len(clientlog) :
           clientlog[i] = FilterProcessed(active[h], TRUE, TRUE)

\* BlockMatched was emitted for the block at height h, after its filter was
\* processed as valid and matching.
MatchedAfterFilter(h) ==
    /\ h <= Len(active)
    /\ \E i, j \in 1..Len(clientlog) :
           /\ i < j
           /\ clientlog[i] = FilterProcessed(active[h], TRUE, TRUE)
           /\ clientlog[j] = BlockMatched(active[h])

Options == [debug : BOOLEAN, birth_height : 0..MaxHeight, connect : PeerIds]

\* The exit status of a process whose main thread panicked.
PANICKED == 101

Exited(code) == proc' = "exited" /\ status' = code

\* l.42, Options::from_env: argh::from_env returns the options, or ends the
\* process itself: with status 0 after printing the help that was asked for,
\* with status 1 after reporting arguments that do not parse.
from_env ==
    /\ proc = "start"
    /\ \/ \E o \in Options : opts' = o /\ proc' = "parsed" /\ status' = status
       \/ \E code \in {0, 1} : opts' = opts /\ Exited(code)
    /\ UNCHANGED <<level, result, logged>>

\* l.44-49: the level follows the debug switch; expect panics when the logger
\* cannot be initialized.
logger_init ==
    /\ proc = "parsed"
    /\ level' = IF opts.debug THEN "Debug" ELSE "Error"
    /\ \/ proc' = "logging" /\ status' = status
       \/ Exited(PANICKED)
    /\ UNCHANGED <<opts, result, logged>>

\* l.51-53: nakamoto_wallet::run returns Ok(()) or an error.
run ==
    /\ proc = "logging"
    /\ result' \in {"Ok", "Err"}
    /\ proc' = "ran"
    /\ UNCHANGED <<opts, level, logged, status>>

\* l.54: log::error!("Fatal: {}", err), which both levels let through.
log_error ==
    /\ proc = "ran"
    /\ result = "Err"
    /\ logged' = Append(logged, [level |-> "Error", text |-> "Fatal"])
    /\ proc' = "fatal"
    /\ UNCHANGED <<opts, level, result, status>>

\* The error branch leaving main without ending the process.
exit_skipped(code) ==
    /\ proc = "fatal"
    /\ Exited(0)
    /\ UNCHANGED <<opts, level, result, logged>>

\* l.55: std::process::exit(1)
exit(code) ==
    /\ proc = "fatal"
    /\ Exited(code)
    /\ UNCHANGED <<opts, level, result, logged>>

\* l.57: main returns, and the process ends with status 0.
main_return ==
    /\ proc = "ran"
    /\ result = "Ok"
    /\ Exited(0)
    /\ UNCHANGED <<opts, level, result, logged>>

NextMain ==
    \/ from_env /\ UNCHANGED <<pingvars, drainvars, hsvars, chainvars, sentvars>>
    \/ logger_init /\ UNCHANGED <<pingvars, drainvars, hsvars, chainvars, sentvars>>
    \/ run /\ UNCHANGED <<pingvars, drainvars, hsvars, chainvars, sentvars>>
    \/ log_error /\ UNCHANGED <<pingvars, drainvars, hsvars, chainvars, sentvars>>
    \/ exit(1) /\ UNCHANGED <<pingvars, drainvars, hsvars, chainvars, sentvars>>
    \/ main_return /\ UNCHANGED <<pingvars, drainvars, hsvars, chainvars, sentvars>>

InitMain == Init /\ rng = 0 /\ hasher = [i \in PeerIds |-> i]

SpecMain == InitMain /\ [][NextMain]_vars

\* C21 as stated: the process has ended with status 1 exactly when run
\* returned an error.
C21_ExitOneIffRunFailed ==
    proc = "exited" => (status = 1 <=> result = "Err")

\* C21, amended: once run has been called, the process ends with status 1
\* exactly when run returned an error, the error logged before the exit, and
\* with status 0 exactly when run returned Ok, nothing logged. A process that
\* ended with status 1 without an error from run never called run: its
\* arguments did not parse.
C21_ExitStatus ==
    proc = "exited" =>
        /\ result = "Err" => status = 1 /\ logged = <<[level |-> "Error", text |-> "Fatal"]>>
        /\ result = "Ok" => status = 0 /\ logged = <<>>
        /\ (status = 1 /\ result # "Err") => result = NotYet /\ level = NotYet
        /\ (status = 0 /\ result # "Ok") => result = NotYet /\ level = NotYet

\* Reached: a process that ended with status 1 after run failed under the
\* debug switch.
C21_Witness ==
    /\ proc = "exited"
    /\ result = "Err"
    /\ status = 1
    /\ level = "Debug"
    /\ Len(logged) = 1

\* ================================================== the pings on their way
\* Disconnects counted per ping, up to this many.
MaxTimeouts == 2

\* The step's effect on the pings on their way, read off the call it made:
\* peer_negotiated (l.97) and the Idle branch of received_wake (l.138-139)
\* send a ping, the AwaitingPong branch (l.128-129) issues a Disconnect, an
\* accepted pong (l.169-172) answers the ping.
Tracked ==
    /\ sent' = [p \in DOMAIN peers' |->
        IF call'.op = "peer_negotiated" /\ call'.addr = p
        THEN LastPing(clock, "peer_negotiated", 0, 0)
        ELSE IF call'.op = "received_wake" /\ \E n \in Nonces : Has(call'.out, Ping(p, n))
        THEN LastPing(clock, "received_wake", 0, 0)
        ELSE IF call'.op = "received_wake" /\ Has(call'.out, TimedOut(p))
        THEN [sent[p] EXCEPT !.timeouts = IF @ < MaxTimeouts THEN @ + 1 ELSE @]
        ELSE IF call'.op = "received_pong" /\ call'.addr = p /\ call'.ret
        THEN [sent[p] EXCEPT !.pongs = @ + 1]
        ELSE sent[p]]
    /\ replaced' =
          IF call'.op = "peer_negotiated" THEN Replaced(peers, call'.addr)
          ELSE IF call'.op \in {"next", "elapse"} THEN replaced
          ELSE NothingReplaced

\* A ping manager with a ping_timeout of twice the default, PING_INTERVAL
\* after it registered peer 1 and accepted the pong for its first ping at
\* once: the peer is due for its next ping.
InitSent ==
    /\ peers = (1 :> [address |-> 1, state |-> Idle(0), latencies |-> <<0>>])
    /\ accepted = (1 :> <<0>>)
    /\ sent = (1 :> LastPing(0, "peer_negotiated", 1, 0))
    /\ replaced = NothingReplaced
    /\ ping_timeout = 2 * PING_TIMEOUT
    /\ rng = RngStep(0)
    /\ hasher = [i \in PeerIds |-> i]
    /\ clock = PING_INTERVAL
    /\ horizon = clock + MaxTime
    /\ outbox = <<>>
    /\ call = Call("elapse", NoAddr, NoNonce, TRUE, <<>>)
    /\ generated = <<>>
    /\ drained = <<>>
    /\ HsInit
    /\ ChainInit
    /\ MainInit

NextSent ==
    \/ \E p \in PeerIds : peer_negotiated(p) /\ Tracked /\ UNCHANGED <<drainvars, hsvars, chainvars, mainvars>>
    \/ \E p \in PeerIds : peer_disconnected(p) /\ Tracked /\ UNCHANGED <<drainvars, hsvars, chainvars, mainvars>>
    \/ received_wake /\ Tracked /\ UNCHANGED <<drainvars, hsvars, chainvars, mainvars>>
    \/ \E p \in PeerIds, n \in Nonces : received_ping(p, n) /\ Tracked /\ UNCHANGED <<drainvars, hsvars, chainvars, mainvars>>
    \/ \E p \in PeerIds, n \in Nonces : received_pong(p, n, clock) /\ Tracked /\ UNCHANGED <<drainvars, hsvars, chainvars, mainvars>>
    \/ elapse /\ Tracked /\ UNCHANGED <<drainvars, hsvars, chainvars, mainvars>>
    \/ next /\ Tracked /\ UNCHANGED <<drainvars, hsvars, chainvars, mainvars>>

SpecSent == InitSent /\ [][NextSent]_vars

PingedIn(out, p) == \E n \in Nonces : Has(out, Ping(p, n))

\* C23: when received_wake sent p's ping at t and the matching pong was
\* accepted at t + r with 0 < r < ping_timeout, the wakes requested with that
\* ping are enough for the next one: a received_wake at t + PING_INTERVAL,
\* the later of the two, that finds p still idle since that pong sends p a
\* new ping.
C23_WakeupsSuffice ==
    [][\A p \in PeerIds :
          (/\ call'.op = "received_wake"
           /\ IsIdle(p)
           /\ sent[p].by = "received_wake"
           /\ peers[p].state.since - sent[p].at > 0
           /\ peers[p].state.since - sent[p].at < ping_timeout
           /\ clock' = sent[p].at + PING_INTERVAL)
             => PingedIn(call'.out, p)]_vars

PingsTo(out, p) == {i \in 1..Len(out) : out[i].kind = "ping" /\ out[i].addr = p}

\* C24 as stated: no call sends a ping to a peer that is awaiting a pong.
C24_NoPingWhileAwaiting ==
    [][\A p \in PeerIds : PingedIn(call'.out, p) => ~Awaiting(p)]_vars

\* C24, amended: a call sends a peer at most one ping. received_wake sends p
\* a ping only when p is idle, never while p awaits a pong, only after
\* exactly one pong was accepted for p's last ping, and no earlier than
\* PING_INTERVAL after the time recorded for that pong. The one other call
\* that sends p a ping is peer_negotiated(p), which does so whatever state p
\* is in, replacing the record with its outstanding ping.
C24_OnePingOutstanding ==
    [][\A p \in PeerIds :
          /\ Cardinality(PingsTo(call'.out, p)) <= 1
          /\ PingedIn(call'.out, p) =>
                \/ call'.op = "peer_negotiated" /\ call'.addr = p
                \/ /\ call'.op = "received_wake"
                   /\ IsIdle(p)
                   /\ sent[p].pongs = 1
                   /\ clock' - peers[p].state.since >= PING_INTERVAL
                   /\ Awaiting(p)' /\ sent'[p].pongs = 0]_vars

\* Reached: received_wake sends p its third ping, after the pongs for the
\* first two were accepted.
C24_Witness ==
    /\ call.op = "received_wake"
    /\ \E p \in PeerIds :
          /\ PingedIn(call.out, p)
          /\ Awaiting(p)
          /\ Len(peers[p].latencies) = 2
          /\ sent[p] = LastPing(clock, "received_wake", 0, 0)

\* C25: a Disconnect for the ping timeout is emitted only by received_wake
\* and leaves p's record as it was, awaiting the same pong since the same
\* instant; once one was emitted for p's ping, every received_wake emits it
\* again for as long as p awaits that pong; a matching pong that arrives at
\* or after the deadline, before or after such a Disconnect, is accepted,
\* returns true and leaves p idle since its arrival; and no Disconnect is
\* emitted for a ping whose pong was accepted.
C25_TimeoutNotLatched ==
    [][\A p \in PeerIds :
          /\ Has(call'.out, TimedOut(p)) =>
                /\ call'.op = "received_wake"
                /\ Awaiting(p)
                /\ p \in DOMAIN peers' /\ peers'[p] = peers[p]
                /\ sent[p].pongs = 0 /\ sent'[p].pongs = 0
          /\ (Awaiting(p) /\ sent[p].timeouts >= 1 /\ call'.op = "received_wake")
                => Has(call'.out, TimedOut(p))
          /\ (/\ Awaiting(p)
              /\ clock' - peers[p].state.since >= ping_timeout
              /\ call'.op = "received_pong"
              /\ call'.addr = p
              /\ call'.nonce = peers[p].state.nonce)
                => /\ call'.ret = TRUE
                   /\ peers'[p].state = Idle(clock')
                   /\ sent'[p].pongs = 1]_vars

\* Reached: the pong for p's ping is accepted after the deadline and after
\* received_wake emitted the Disconnect for that ping twice.
C25_Witness ==
    /\ call.op = "received_pong"
    /\ call.ret = TRUE
    /\ IsIdle(call.addr)
    /\ sent[call.addr].timeouts = MaxTimeouts
    /\ sent[call.addr].pongs = 1
    /\ clock - sent[call.addr].at > ping_timeout

\* C27: peer_negotiated(p) for a peer that has a record, idle or awaiting a
\* pong, sends one new ping and replaces the record: p awaits the pong for
\* the new nonce since now, with no latency samples, and the set of records
\* is as before. A pong that carries the nonce outstanding before, when the
\* new nonce differs from it, is then not accepted: it returns false and
\* changes no record.
C27_ReRegistrationResets ==
    [][/\ (call'.op = "peer_negotiated" /\ call'.addr \in DOMAIN peers) =>
             LET p == call'.addr IN
             /\ DOMAIN peers' = DOMAIN peers
             /\ Len(call'.out) = 1
             /\ call'.out[1].kind = "ping" /\ call'.out[1].addr = p
             /\ peers'[p].state = AwaitingPong(call'.out[1].nonce, clock')
             /\ peers'[p].latencies = <<>>
             /\ \A q \in DOMAIN peers \ {p} : peers'[q] = peers[q]
       /\ (/\ call'.op = "received_pong"
           /\ replaced.had /\ replaced.tag = "AwaitingPong"
           /\ call'.addr = replaced.addr
           /\ call'.nonce = replaced.nonce
           /\ Awaiting(replaced.addr)
           /\ peers[replaced.addr].state.nonce # replaced.nonce) =>
             call'.ret = FALSE /\ peers' = peers]_vars

\* Reached: peer_negotiated(p) replaced the record of a peer that had
\* latency samples and awaited the pong for another nonce.
C27_Witness ==
    /\ call.op = "peer_negotiated"
    /\ replaced.had /\ replaced.addr = call.addr
    /\ replaced.tag = "AwaitingPong"
    /\ replaced.samples > 0
    /\ Awaiting(call.addr)
    /\ peers[call.addr].state.nonce # replaced.nonce
    /\ peers[call.addr].state.since = clock
    /\ peers[call.addr].latencies = <<>>

\* ------------------------------------------------------------------------ C26
\* The kinds of the outputs addressed to p, in their order.
KindsTo(out, p) == [i \in 1..Len(WritesTo(out, p)) |-> WritesTo(out, p)[i].kind]

\* Two records that differ at most in the nonce of the outstanding ping.
SameButNonce(a, b) ==
    /\ a.address = b.address
    /\ a.latencies = b.latencies
    /\ a.state.tag = b.state.tag
    /\ a.state.since = b.state.since

\* received_wake's loop over the registered peers taken in the given order,
\* and over the one peer p as if no other were registered.
InOrder(order) == wake_loop(order, clock, [peers |-> peers, rng |-> rng, out |-> <<>>])
Alone(p) == InOrder(<<p>>)

\* The calls that name one peer leave every other peer alone.
OthersUntouched ==
    call'.op \in {"peer_negotiated", "peer_disconnected", "received_ping", "received_pong"} =>
        \A q \in PeerIds \ {call'.addr} :
            /\ q \in DOMAIN peers' <=> q \in DOMAIN peers
            /\ q \in DOMAIN peers => peers'[q] = peers[q]
            /\ ~Addressed(call'.out, q)

\* C26 as stated: besides that, what received_wake does for a peer, its new
\* record included, is the same in whatever order the peers are iterated
\* and whether or not other peers are registered.
C26_WakeIndependent ==
    [][/\ OthersUntouched
       /\ call'.op = "received_wake" =>
            \A p \in DOMAIN peers :
                /\ p \in DOMAIN peers'
                /\ \A order \in Perms(DOMAIN peers) :
                      /\ InOrder(order).peers[p] = peers'[p]
                      /\ KindsTo(InOrder(order).out, p) = KindsTo(call'.out, p)
                /\ Alone(p).peers[p] = peers'[p]
                /\ KindsTo(Alone(p).out, p) = KindsTo(call'.out, p)]_vars

\* C26, amended: peer_negotiated(p), peer_disconnected(p), received_ping(p, _)
\* and received_pong(p, _, _) leave the record of every other peer unchanged
\* and emit no output addressed to it; within received_wake, whether a peer
\* gets a ping, a Disconnect or nothing, and its new state up to the nonce
\* of a new ping, is the same in whatever order the peers are iterated and
\* whether or not other peers are registered. The nonce is the generator's
\* next value at the peer's turn, so it follows the order and the number of
\* peers pinged before it.
C26_Isolation ==
    [][/\ OthersUntouched
       /\ call'.op = "received_wake" =>
            \A p \in DOMAIN peers :
                /\ p \in DOMAIN peers'
                /\ \A order \in Perms(DOMAIN peers) :
                      /\ SameButNonce(InOrder(order).peers[p], peers'[p])
                      /\ KindsTo(InOrder(order).out, p) = KindsTo(call'.out, p)
                /\ SameButNonce(Alone(p).peers[p], peers'[p])
                /\ KindsTo(Alone(p).out, p) = KindsTo(call'.out, p)
                /\ (peers'[p].state.tag = "AwaitingPong" /\ IsIdle(p)) =>
                      \E k \in 1..Cardinality(DOMAIN peers) :
                          /\ k = Cardinality({q \in DOMAIN peers : PingedIn(call'.out, q)
                                                 /\ \E i, j \in 1..Len(hasher) :
                                                       hasher[i] = q /\ hasher[j] = p /\ i <= j})
                          /\ peers'[p].state.nonce = (rng + k) % RngMod]_vars

\* Reached: one received_wake pinged two peers with different nonces, and
\* timed out neither.
C26_Witness ==
    /\ call.op = "received_wake"
    /\ \E p, q \in PeerIds :
          /\ p # q
          /\ PingedIn(call.out, p) /\ PingedIn(call.out, q)
          /\ Awaiting(p) /\ Awaiting(q)
          /\ peers[p].state.nonce # peers[q].state.nonce

\* ============================================ the ping manager kept awake
\* received_wake keeps being called, the clock keeps advancing up to the
\* horizon, and the reactor drains what each call leaves.
Rest == UNCHANGED <<drainvars, hsvars, chainvars, mainvars, sentvars>>

\* A new ping manager, followed for as long as it takes an idle peer to be
\* pinged again and that ping to time out.
InitLive ==
    /\ peers = <<>>
    /\ ping_timeout = PING_TIMEOUT
    /\ rng = 0
    /\ hasher = [i \in PeerIds |-> i]
    /\ clock = 0
    /\ horizon = PING_INTERVAL + PING_TIMEOUT
    /\ outbox = <<>>
    /\ call = Call("new", NoAddr, NoNonce, TRUE, <<>>)
    /\ accepted = <<>>
    /\ generated = <<>>
    /\ drained = <<>>
    /\ HsInit
    /\ ChainInit
    /\ MainInit
    /\ SentInit

SpecLive ==
    /\ InitLive
    /\ [][Next]_vars
    /\ SF_vars(received_wake /\ Rest)
    /\ WF_vars(elapse /\ Rest)
    /\ WF_vars(next /\ Rest)

\* The deadline of p's outstanding ping lies within the time followed.
Overdue(p) == Awaiting(p) /\ peers[p].state.since + ping_timeout <= horizon
\* The instant from which an idle p is due for a ping lies within it.
Due(p) == IsIdle(p) /\ peers[p].state.since + PING_INTERVAL <= horizon

Detected(p) == call.op = "received_wake" /\ Has(call.out, TimedOut(p))
Gone(p) == p \notin DOMAIN peers
\* p's ping was sent anew, so late that its deadline lies after the time
\* followed.
Beyond(p) == Awaiting(p) /\ peers[p].state.since + ping_timeout > horizon

====
